---- MODULE Spec2Model ----
(***************************************************************************)
(* State-machine model of the c-chat backend (src-tauri):                  *)
(*   - lib.rs : the MCP client registry (McpState.clients behind a         *)
(*              tokio::sync::Mutex) and the transport choice of            *)
(*              mcp_connect;                                               *)
(*   - sync.rs: the settings sync server (SyncService.shutdown_tx slot,    *)
(*              the spawned axum task, the oneshot shutdown channel, the   *)
(*              get_settings / update_settings handlers with the JSON      *)
(*              parse and print they rest on).                             *)
(* The two subsystems share no state; each is checked under its own        *)
(* specification (SpecSelect, SpecRegistry / FairRegistry, SpecServer /    *)
(* FairServer).                                                            *)
(***************************************************************************)
EXTENDS Integers, Sequences, FiniteSets, TLC

(***************************************************************************)
(* Bounds of the model                                                     *)
(***************************************************************************)
\* longest URL drawn for the transport choice
MaxUrlLen == 5
\* concurrent callers of the mcp_* commands
NumCallers == 2
\* commands issued to the registry in one behaviour
MaxOps == 3
\* tasks calling start_sync_server / stop_sync_server concurrently
NumProcs == 2
\* start/stop commands and HTTP requests issued in one behaviour
MaxCalls == 4
\* requests one server instance has accepted and not yet answered
MaxInflight == 1
\* HTTP requests the instances accept in a run
MaxRequests == 2

VARIABLES
    \* ---- transport choice (lib.rs:31-42), as a function of its inputs
    url,             \* the url argument
    transport,       \* the transport argument: Option<String>
    transport_type,  \* the local transport_type, "unset" before the match
    \* ---- registry (lib.rs)
    clients,         \* McpState.clients: the map, as a set of <<id, handle>>
    lockHolder,      \* the caller holding the MutexGuard of clients, or NoCaller
    waiters,         \* FIFO queue of callers suspended in clients.lock().await
    writing,         \* the key whose entry an insert in progress is writing
    pc,              \* per caller: the await point its command is at
    call,            \* per caller: the command's arguments; transport is the local
                     \* transport_type, which mcp::connect consumes
    client,          \* per caller: the local `client` (handle), or NoHandle
    res,             \* per caller: the command's Result
    nextHandle,      \* number of the next session the connector creates
    nops,            \* commands issued so far
    history,         \* ghost: the inserts done, in order, as <<id, handle>>
    acquired,        \* ghost: the handles whose connect got the guard, in order
    engineCalls,     \* ghost: the ids whose lookup handed an RPC to rmcp
    \* ---- sync server (sync.rs)
    shutdown_tx,     \* SyncService.shutdown_tx: NoChan (None) or Some(sender of channel k)
    chan,            \* the oneshot channels created, by number: where the receiver
                     \* is, whether the signal was sent, and (ghost) how often
    server,          \* per channel: the axum instance its start built: status,
                     \* stored settings, requests in flight, port of the URL
    spc,             \* per task: where its start_sync_server is
    mine,            \* per task: the channel its start created (the local rx),
                     \* NoChan when no start of the task is in progress
    sarg,            \* per task: the settings argument of its start
    scalls,          \* start/stop commands issued so far
    cmd,             \* ghost: the command that was issued last
    last,            \* ghost: the command that returned last
    nreqs,           \* HTTP requests accepted so far
    events,          \* the app_handle.emit calls made, in order
    posts,           \* ghost: the POST bodies the handler was run on, in order
    resp             \* ghost: the HTTP response that was sent last; for a GET the
                     \* string it read, for a POST whether emit returned Ok

selVars == <<url, transport, transport_type>>
regVars == <<clients, lockHolder, waiters, writing, pc, call, client, res, acquired,
             nextHandle, nops, history, engineCalls>>
srvVars == <<shutdown_tx, chan, server, spc, mine, sarg, scalls, cmd, last,
             nreqs, events, posts, resp>>
httpVars == <<nreqs, events, posts, resp>>
vars == <<selVars, regVars, srvVars>>

(***************************************************************************)
(* Transport choice: mcp_connect, lib.rs:31-42                             *)
(***************************************************************************)
Chars == {"/", "s", "e", "a"}
NoHint == "None"
\* Some("sse"), Some("http") and values the match does not name
Hints == {NoHint, "sse", "http", "SSE", "ws"}

RECURSIVE SeqsUpTo(_)
SeqsUpTo(n) ==
    IF n = 0 THEN {<<>>}
    ELSE LET shorter == SeqsUpTo(n - 1)
         IN  shorter \cup {Append(s, ch) : s \in {t \in shorter : Len(t) = n - 1}, ch \in Chars}

Urls == SeqsUpTo(MaxUrlLen)

SsePattern == <<"/", "s", "s", "e">>

\* str::contains: the pattern occurs at some offset of the string
Contains(u, pat) ==
    \E i \in 1..(Len(u) - Len(pat) + 1) : SubSeq(u, i, i + Len(pat) - 1) = pat

\* a mutant of SelectTransport: the url heuristic is consulted before the hint
SelectTransportUrlFirst(u, h) ==
    IF Contains(u, SsePattern) THEN "Sse"
    ELSE IF h = "sse" THEN "Sse"
    ELSE "StreamableHttp"

SelectTransport(u, h) ==
    CASE h = "sse"  -> "Sse"
      [] h = "http" -> "StreamableHttp"
      [] OTHER      -> IF Contains(u, SsePattern) THEN "Sse" ELSE "StreamableHttp"

InitSelect ==
    /\ url \in Urls
    /\ transport \in Hints
    /\ transport_type = "unset"

\* the match of lines 32-42 evaluated on the drawn arguments
Select ==
    /\ transport_type = "unset"
    /\ transport_type' = SelectTransport(url, transport)
    /\ UNCHANGED <<url, transport>>
    /\ UNCHANGED <<regVars, srvVars>>

(***************************************************************************)
(* Registry: McpState, mcp_connect, mcp_list_tools, mcp_call_tool          *)
(***************************************************************************)
Callers == 1..NumCallers
NoCaller == 0
Ids == {"a", "b"}
NoId == "-"
NoHandle == [n |-> 0, id |-> NoId]
NoCall == [kind |-> "none", id |-> NoId, transport |-> "none"]
\* urls and hints the registry's callers pass: both branches of the heuristic
RegUrls == {SsePattern, <<"a">>}

\* HashMap::get
Get(m, k) ==
    IF \E p \in m : p[1] = k THEN (CHOOSE p \in m : p[1] = k)[2] ELSE NoHandle

\* a mutant of Insert: HashMap::entry(k).or_insert(v), an existing entry stays
InsertIfAbsent(m, k, v) ==
    IF \E p \in m : p[1] = k THEN m ELSE m \cup {<<k, v>>}

\* HashMap::insert: the entry of k, if any, is replaced
Insert(m, k, v) == {p \in m : p[1] # k} \cup {<<k, v>>}

\* clients.lock().await: the guard at once when the lock is free, else the
\* caller joins the FIFO queue of the mutex
Acquire(c) ==
    IF lockHolder = NoCaller
    THEN /\ lockHolder' = c
         /\ waiters' = waiters
    ELSE /\ waiters' = Append(waiters, c)
         /\ lockHolder' = lockHolder

\* a mutant of Release: the guard is leaked (mem::forget), the lock stays held
ReleaseLeak ==
    UNCHANGED <<lockHolder, waiters>>

\* the MutexGuard is dropped: the lock passes to the first waiter
Release ==
    IF waiters = <<>>
    THEN /\ lockHolder' = NoCaller
         /\ waiters' = waiters
    ELSE /\ lockHolder' = Head(waiters)
         /\ waiters' = Tail(waiters)

InitRegistry ==
    /\ clients = {}
    /\ lockHolder = NoCaller
    /\ waiters = <<>>
    /\ writing = NoId
    /\ pc = [c \in Callers |-> "idle"]
    /\ call = [c \in Callers |-> NoCall]
    /\ client = [c \in Callers |-> NoHandle]
    /\ res = [c \in Callers |-> "none"]
    /\ nextHandle = 1
    /\ nops = 0
    /\ history = <<>>
    /\ acquired = <<>>
    /\ engineCalls = {}

\* a mutant of ConnectCall: the guard is taken before mcp::connect is awaited
ConnectCallLocked(c, id, u, h) ==
    /\ pc[c] = "idle"
    /\ nops < MaxOps
    /\ nops' = nops + 1
    /\ call' = [call EXCEPT ![c] = [kind |-> "connect", id |-> id,
                                    transport |-> SelectTransport(u, h)]]
    /\ Acquire(c)
    /\ pc' = [pc EXCEPT ![c] = "connecting"]
    /\ res' = [res EXCEPT ![c] = "pending"]
    /\ client' = [client EXCEPT ![c] = NoHandle]
    /\ UNCHANGED <<clients, writing, nextHandle, history, acquired, engineCalls>>
    /\ UNCHANGED <<selVars, srvVars>>

\* mcp_connect up to its first await: the transport is chosen (lines 32-42)
\* and mcp::connect is started (line 44)
ConnectCall(c, id, u, h) ==
    /\ pc[c] = "idle"
    /\ nops < MaxOps
    /\ nops' = nops + 1
    /\ call' = [call EXCEPT ![c] = [kind |-> "connect", id |-> id,
                                    transport |-> SelectTransport(u, h)]]
    /\ pc' = [pc EXCEPT ![c] = "connecting"]
    /\ res' = [res EXCEPT ![c] = "pending"]
    /\ client' = [client EXCEPT ![c] = NoHandle]
    /\ UNCHANGED <<clients, lockHolder, waiters, writing, nextHandle, history, acquired, engineCalls>>
    /\ UNCHANGED <<selVars, srvVars>>

\* a mutant of ConnectorFail: the failed connect evicts the entry of its id
ConnectorFailEvicts(c) ==
    /\ pc[c] = "connecting"
    /\ pc' = [pc EXCEPT ![c] = "idle"]
    /\ res' = [res EXCEPT ![c] = "ConnectFailure"]
    /\ clients' = {p \in clients : p[1] # call[c].id}
    /\ call' = [call EXCEPT ![c].transport = "none"]
    /\ UNCHANGED <<lockHolder, waiters, writing, client, nextHandle, nops,
                   history, acquired, engineCalls>>
    /\ UNCHANGED <<selVars, srvVars>>

\* mcp::connect returns Err: `?` returns the stringified error (lines 44-46)
ConnectorFail(c) ==
    /\ pc[c] = "connecting"
    /\ pc' = [pc EXCEPT ![c] = "idle"]
    /\ res' = [res EXCEPT ![c] = "ConnectFailure"]
    /\ call' = [call EXCEPT ![c].transport = "none"]
    /\ UNCHANGED <<clients, lockHolder, waiters, writing, client, nextHandle,
                   nops, history, acquired, engineCalls>>
    /\ UNCHANGED <<selVars, srvVars>>

\* mcp::connect returns Ok(client), a session over call[c].transport
\* (line 44).  The id field of the handle is a ghost: the id of the connect
\* that created the session.
ConnectorOk(c) ==
    /\ pc[c] = "connecting"
    /\ client' = [client EXCEPT ![c] = [n |-> nextHandle, id |-> call[c].id]]
    /\ nextHandle' = nextHandle + 1
    /\ pc' = [pc EXCEPT ![c] = "connected"]
    /\ call' = [call EXCEPT ![c].transport = "none"]
    /\ UNCHANGED <<clients, lockHolder, waiters, writing, res, nops, history,
                   acquired, engineCalls>>
    /\ UNCHANGED <<selVars, srvVars>>

\* the command goes on to state.clients.lock() (line 48); on the
\* multi-threaded runtime another command may get there first
LockClients(c) ==
    /\ pc[c] = "connected"
    /\ Acquire(c)
    /\ pc' = [pc EXCEPT ![c] = "conn_lock"]
    /\ UNCHANGED <<clients, writing, call, client, res, nextHandle, nops, history,
                   acquired, engineCalls>>
    /\ UNCHANGED <<selVars, srvVars>>

\* a mutant of InsertBegin: the entry is written without the guard
InsertBeginNoGuard(c) ==
    /\ pc[c] = "conn_lock"
    /\ writing' = call[c].id
    /\ acquired' = Append(acquired, client[c])
    /\ pc' = [pc EXCEPT ![c] = "conn_insert"]
    /\ UNCHANGED <<clients, lockHolder, waiters, call, client, res, nextHandle,
                   nops, history, engineCalls>>
    /\ UNCHANGED <<selVars, srvVars>>

\* the guard is in hand and HashMap::insert starts writing the entry (line 48)
InsertBegin(c) ==
    /\ pc[c] = "conn_lock"
    /\ lockHolder = c
    /\ writing' = call[c].id
    /\ acquired' = Append(acquired, client[c])
    /\ pc' = [pc EXCEPT ![c] = "conn_insert"]
    /\ UNCHANGED <<clients, lockHolder, waiters, call, client, res, nextHandle,
                   nops, history, engineCalls>>
    /\ UNCHANGED <<selVars, srvVars>>

\* the insert completes, the guard is dropped, Ok(()) is returned (lines 48-49)
InsertEnd(c) ==
    /\ pc[c] = "conn_insert"
    /\ clients' = Insert(clients, call[c].id, client[c])
    /\ history' = Append(history, <<call[c].id, client[c]>>)
    /\ writing' = NoId
    /\ Release
    /\ pc' = [pc EXCEPT ![c] = "idle"]
    /\ res' = [res EXCEPT ![c] = "Ok"]
    /\ client' = [client EXCEPT ![c] = NoHandle]
    /\ UNCHANGED <<call, nextHandle, nops, acquired, engineCalls>>
    /\ UNCHANGED <<selVars, srvVars>>

\* mcp_list_tools / mcp_call_tool up to their first await: clients.lock()
\* (lines 54 and 71)
LookupCall(c, kind, id) ==
    /\ pc[c] = "idle"
    /\ nops < MaxOps
    /\ nops' = nops + 1
    /\ call' = [call EXCEPT ![c] = [kind |-> kind, id |-> id, transport |-> "none"]]
    /\ Acquire(c)
    /\ pc' = [pc EXCEPT ![c] = "lookup"]
    /\ res' = [res EXCEPT ![c] = "pending"]
    /\ client' = [client EXCEPT ![c] = NoHandle]
    /\ UNCHANGED <<clients, writing, nextHandle, history, acquired, engineCalls>>
    /\ UNCHANGED <<selVars, srvVars>>

ListTools(c, id) == LookupCall(c, "list_tools", id)

CallTool(c, id) == LookupCall(c, "call_tool", id)

\* the caller reads the map: it holds the guard of clients.lock().await
CanRead(c) == pc[c] = "lookup" /\ lockHolder = c

\* a mutant of Lookup: an absent id is passed on to the RPC engine, whose
\* error is returned
LookupNoCheck(c) ==
    /\ CanRead(c)
    /\ client' = [client EXCEPT ![c] = Get(clients, call[c].id)]
    /\ engineCalls' = engineCalls \cup {call[c].id}
    /\ pc' = [pc EXCEPT ![c] = "rpc"]
    /\ UNCHANGED <<clients, lockHolder, waiters, writing, call, res, nextHandle,
                   nops, history, acquired>>
    /\ UNCHANGED <<selVars, srvVars>>

\* clients.get(&id).ok_or("Client not found")? (lines 55 and 72): an absent id
\* returns the error and drops the guard; a present one starts the RPC
\* (lines 57-59 and 79) with the guard `clients` still alive
Lookup(c) ==
    /\ CanRead(c)
    /\ LET h == Get(clients, call[c].id)
       IN  IF h = NoHandle
           THEN /\ res' = [res EXCEPT ![c] = "NotFound"]
                /\ pc' = [pc EXCEPT ![c] = "idle"]
                /\ Release
                /\ UNCHANGED <<client, engineCalls>>
           ELSE /\ client' = [client EXCEPT ![c] = h]
                /\ engineCalls' = engineCalls \cup {call[c].id}
                /\ pc' = [pc EXCEPT ![c] = "rpc"]
                /\ UNCHANGED <<res, lockHolder, waiters>>
    /\ UNCHANGED <<clients, writing, call, nextHandle, nops, history, acquired>>
    /\ UNCHANGED <<selVars, srvVars>>

\* the RPC returns: Ok(value), or the stringified error of the engine or of
\* serde_json::to_value (lines 60-61 and 79-80); the guard is dropped as the
\* command returns
RpcReturn(c, ok) ==
    /\ pc[c] = "rpc"
    /\ res' = [res EXCEPT ![c] = IF ok THEN "Ok" ELSE "RpcFailure"]
    /\ pc' = [pc EXCEPT ![c] = "idle"]
    /\ Release
    /\ client' = [client EXCEPT ![c] = NoHandle]
    /\ UNCHANGED <<clients, writing, call, nextHandle, nops, history, acquired, engineCalls>>
    /\ UNCHANGED <<selVars, srvVars>>

NextRegistry ==
    \/ \E c \in Callers, id \in Ids, u \in RegUrls, h \in Hints : ConnectCall(c, id, u, h)
    \/ \E c \in Callers : ConnectorFail(c)
    \/ \E c \in Callers : ConnectorOk(c)
    \/ \E c \in Callers : LockClients(c)
    \/ \E c \in Callers : InsertBegin(c)
    \/ \E c \in Callers : InsertEnd(c)
    \/ \E c \in Callers, id \in Ids : ListTools(c, id)
    \/ \E c \in Callers, id \in Ids : CallTool(c, id)
    \/ \E c \in Callers : Lookup(c)
    \/ \E c \in Callers, ok \in BOOLEAN : RpcReturn(c, ok)

(***************************************************************************)
(* Sync server: SyncService, start_sync_server, stop_sync_server and the   *)
(* spawned axum task (sync.rs)                                             *)
(***************************************************************************)
Procs == 1..NumProcs
NoChan == 0
\* the settings strings passed to start: two JSON documents and a truncated one
\* JSON text is a sequence of tokens: braces, colon, comma, keys and numbers
Keys == {"a", "b"}
Digits == {"1", "2"}

\* serde_json::Value: an object (its members as <<key, number>> pairs, one
\* per key) or a number; ParseError is the Err of serde_json::from_str
Object(m) == [t |-> "object", num |-> 0, members |-> m]
Number(n) == [t |-> "number", num |-> n, members |-> {}]
ParseError == [t |-> "error", num |-> 0, members |-> {}]
\* serde_json::json!({})
EmptyObject == Object({})

Digit(n) == IF n = 1 THEN "1" ELSE "2"
NumOf(d) == IF d = "1" THEN 1 ELSE 2
\* the order of the keys in the Map of a Value
KeyRank(k) == IF k = "a" THEN 1 ELSE 2

\* the members between the braces: key : number (, key : number)*
WellFormedMembers(t) ==
    \/ Len(t) = 0
    \/ /\ Len(t) % 4 = 3
       /\ \A i \in 1..Len(t) :
             CASE i % 4 = 1 -> t[i] \in Keys
               [] i % 4 = 2 -> t[i] = ":"
               [] i % 4 = 3 -> t[i] \in Digits
               [] OTHER     -> t[i] = ","

\* Map::insert per member in text order: the last occurrence of a key wins
MembersOf(t) ==
    LET at(k) == {i \in 1..Len(t) : i % 4 = 1 /\ t[i] = k}
        lastAt(k) == CHOOSE i \in at(k) : \A j \in at(k) : j <= i
    IN  {<<k, NumOf(t[lastAt(k) + 2])>> : k \in {k \in Keys : at(k) # {}}}

\* serde_json::from_str::<Value> (line 92) and the Json<Value> extractor of
\* update_settings (line 98)
from_str(s) ==
    IF Len(s) = 1 /\ s[1] \in Digits
    THEN Number(NumOf(s[1]))
    ELSE IF /\ Len(s) >= 2
            /\ s[1] = "{"
            /\ s[Len(s)] = "}"
            /\ WellFormedMembers(SubSeq(s, 2, Len(s) - 1))
    THEN Object(MembersOf(SubSeq(s, 2, Len(s) - 1)))
    ELSE ParseError

RECURSIVE members_to_string(_)
members_to_string(m) ==
    IF m = {} THEN <<>>
    ELSE LET first == CHOOSE p \in m : \A q \in m : KeyRank(p[1]) <= KeyRank(q[1])
             rest == m \ {first}
         IN  <<first[1], ":", Digit(first[2])>>
                 \o (IF rest = {} THEN <<>> ELSE <<",">> \o members_to_string(rest))

\* Value::to_string (line 101) and the body of a Json(value) response
\* (line 93): compact text, the members in the order of the Map
to_string(v) ==
    IF v.t = "number" THEN <<Digit(v.num)>>
    ELSE <<"{">> \o members_to_string(v.members) \o <<"}">>

\* settings strings a start is called with: two documents and a truncated one
SettingsArgs == {<<"{", "a", ":", "1", "}">>, <<"{", "b", ":", "2", "}">>,
                 <<"{", "a", ":">>}
\* bodies a POST arrives with: a document, one with its keys out of order,
\* a number, and a truncated one
Bodies == {<<"{", "a", ":", "1", "}">>,
           <<"{", "b", ":", "2", ",", "a", ":", "1", "}">>,
           <<"2">>,
           <<"{", "a", ":">>}
NoResp == [inst |-> 0, method |-> "none", status |-> 0, body |-> <<>>, stored |-> <<>>,
           delivered |-> FALSE]
NoCmd == [op |-> "none", proc |-> 0, arg |-> <<>>, result |-> "none",
          before |-> NoChan, after |-> NoChan, created |-> NoChan, running |-> {}]

\* the ports the OS hands out for a bind to port 0; NoPort for a listener
\* that is not bound
Ports == {"p1", "p2"}
NoPort == "none"
\* the instances whose task has not ended: accepting (serving) or finishing
\* the requests in flight after the shutdown signal (draining)
Running(srv) == {k \in 1..Len(srv) : srv[k].status \in {"serving", "draining"}}

InitServer ==
    /\ shutdown_tx = NoChan
    /\ chan = <<>>
    /\ server = <<>>
    /\ spc = [p \in Procs |-> "idle"]
    /\ mine = [p \in Procs |-> NoChan]
    /\ sarg = [p \in Procs |-> <<>>]
    /\ scalls = 0
    /\ cmd = [op |-> "none", proc |-> 0]
    /\ last = NoCmd
    /\ nreqs = 0
    /\ events = <<>>
    /\ posts = <<>>
    /\ resp = NoResp

\* a mutant of StartRejected: a start on an occupied slot replaces the
\* settings of the instance that holds the slot
StartRejectedReplaces(p, s) ==
    /\ shutdown_tx # NoChan
    /\ last' = [op |-> "start", proc |-> p, arg |-> s, result |-> "AlreadyRunning",
                before |-> shutdown_tx, after |-> shutdown_tx, created |-> NoChan,
                running |-> Running(server)]
    /\ server' = [server EXCEPT ![shutdown_tx].settings = s]
    /\ UNCHANGED <<shutdown_tx, chan, spc, mine, sarg>>

\* lines 39-43: the slot is occupied, Err("Server already running")
StartRejected(p, s) ==
    /\ shutdown_tx # NoChan
    /\ last' = [op |-> "start", proc |-> p, arg |-> s, result |-> "AlreadyRunning",
                before |-> shutdown_tx, after |-> shutdown_tx, created |-> NoChan,
                running |-> Running(server)]
    /\ UNCHANGED <<shutdown_tx, chan, server, spc, mine, sarg>>

\* lines 39-63: the slot is empty; a oneshot channel is created, its sender is
\* stored in the slot, the receiver stays in the local rx; the ServerState is
\* built from the settings argument
StartClaimed(p, s) ==
    /\ shutdown_tx = NoChan
    /\ chan' = Append(chan, [rx |-> "start", sent |-> FALSE, sends |-> 0])
    /\ server' = Append(server, [status |-> "unbound", settings |-> s, inflight |-> 0,
                                 port |-> NoPort])
    /\ shutdown_tx' = Len(chan) + 1
    /\ mine' = [mine EXCEPT ![p] = Len(chan) + 1]
    /\ sarg' = [sarg EXCEPT ![p] = s]
    /\ spc' = [spc EXCEPT ![p] = "binding"]
    /\ UNCHANGED last

\* start_sync_server up to its await of the bind (lines 38-66)
StartSyncServer(p, s) ==
    /\ spc[p] = "idle"
    /\ scalls + nreqs < MaxCalls
    /\ scalls' = scalls + 1
    /\ cmd' = [op |-> "start", proc |-> p]
    /\ (StartRejected(p, s) \/ StartClaimed(p, s))
    /\ UNCHANGED <<selVars, regVars, httpVars>>

\* lines 65-67 fail (local_ip, bind or local_addr): `?` returns the error and
\* drops the local rx and the router with its ServerState; the slot is not
\* touched
StartFailed(p, why) ==
    /\ spc[p] = "binding"
    /\ chan' = [chan EXCEPT ![mine[p]].rx = "dropped"]
    /\ server' = [server EXCEPT ![mine[p]].status = "dropped"]
    /\ spc' = [spc EXCEPT ![p] = "idle"]
    /\ last' = [op |-> "start", proc |-> p, arg |-> sarg[p], result |-> why,
                before |-> shutdown_tx, after |-> shutdown_tx, created |-> mine[p],
                running |-> Running(server)]
    /\ mine' = [mine EXCEPT ![p] = NoChan]
    /\ sarg' = [sarg EXCEPT ![p] = <<>>]
    /\ UNCHANGED <<shutdown_tx, scalls, cmd>>
    /\ UNCHANGED <<selVars, regVars, httpVars>>

\* the ports a listener of a running instance is bound to
BoundPorts == {server[k].port : k \in Running(server)}

\* lines 65-78 succeed: the listener is bound to a port the OS picks among
\* the free ones (bind to port 0, line 66), the server task is spawned with
\* the listener, the router and rx, and Ok(url) is returned
StartBound(p, port) ==
    /\ spc[p] = "binding"
    /\ port \notin BoundPorts
    /\ chan' = [chan EXCEPT ![mine[p]].rx = "task"]
    /\ server' = [server EXCEPT ![mine[p]].status = "serving", ![mine[p]].port = port]
    /\ spc' = [spc EXCEPT ![p] = "idle"]
    /\ last' = [op |-> "start", proc |-> p, arg |-> sarg[p], result |-> "Ok",
                before |-> shutdown_tx, after |-> shutdown_tx, created |-> mine[p],
                running |-> Running(server')]
    /\ mine' = [mine EXCEPT ![p] = NoChan]
    /\ sarg' = [sarg EXCEPT ![p] = <<>>]
    /\ UNCHANGED <<shutdown_tx, scalls, cmd>>
    /\ UNCHANGED <<selVars, regVars, httpVars>>

\* the Result of stop_sync_server when the slot holds None (lines 84-87)
StopEmptyResult == "Ok"

\* oneshot::Sender::send: an error when the receiver has been dropped
SendFails(k) == chan[k].rx = "dropped"

\* a mutant of StopSyncServer: the sender is used in place (as_ref) and
\* stays in the slot
StopKeepsSlot(p) ==
    /\ scalls + nreqs < MaxCalls
    /\ scalls' = scalls + 1
    /\ cmd' = [op |-> "stop", proc |-> p]
    /\ shutdown_tx' = shutdown_tx
    /\ IF shutdown_tx = NoChan
       THEN /\ last' = [op |-> "stop", proc |-> p, arg |-> <<>>, result |-> StopEmptyResult,
                        before |-> NoChan, after |-> NoChan, created |-> NoChan,
                        running |-> Running(server)]
            /\ UNCHANGED chan
       ELSE IF SendFails(shutdown_tx)
       THEN /\ last' = [op |-> "stop", proc |-> p, arg |-> <<>>,
                        result |-> "ShutdownSignalFailed",
                        before |-> shutdown_tx, after |-> shutdown_tx, created |-> NoChan,
                        running |-> Running(server)]
            /\ UNCHANGED chan
       ELSE /\ chan' = [chan EXCEPT ![shutdown_tx].sent = TRUE,
                                     ![shutdown_tx].sends = @ + 1]
            /\ last' = [op |-> "stop", proc |-> p, arg |-> <<>>, result |-> "Ok",
                        before |-> shutdown_tx, after |-> shutdown_tx, created |-> NoChan,
                        running |-> Running(server)]
    /\ UNCHANGED <<server, spc, mine, sarg>>
    /\ UNCHANGED <<selVars, regVars, httpVars>>

\* stop_sync_server (lines 82-88): no await, the std Mutex is held throughout.
\* take() empties the slot before send() is tried.
StopSyncServer(p) ==
    /\ scalls + nreqs < MaxCalls
    /\ scalls' = scalls + 1
    /\ cmd' = [op |-> "stop", proc |-> p]
    /\ shutdown_tx' = NoChan
    /\ IF shutdown_tx = NoChan
       THEN /\ last' = [op |-> "stop", proc |-> p, arg |-> <<>>, result |-> StopEmptyResult,
                        before |-> NoChan, after |-> NoChan, created |-> NoChan,
                        running |-> Running(server)]
            /\ UNCHANGED chan
       ELSE IF SendFails(shutdown_tx)
       THEN /\ last' = [op |-> "stop", proc |-> p, arg |-> <<>>,
                        result |-> "ShutdownSignalFailed",
                        before |-> shutdown_tx, after |-> NoChan, created |-> NoChan,
                        running |-> Running(server)]
            /\ UNCHANGED chan
       ELSE /\ chan' = [chan EXCEPT ![shutdown_tx].sent = TRUE,
                                     ![shutdown_tx].sends = @ + 1]
            /\ last' = [op |-> "stop", proc |-> p, arg |-> <<>>, result |-> "Ok",
                        before |-> shutdown_tx, after |-> NoChan, created |-> NoChan,
                        running |-> Running(server)]
    /\ UNCHANGED <<server, spc, mine, sarg>>
    /\ UNCHANGED <<selVars, regVars, httpVars>>

\* the serving task accepts a connection and starts on its request
Accept(k) ==
    /\ server[k].status = "serving"
    /\ server[k].inflight < MaxInflight
    /\ nreqs < MaxRequests
    /\ scalls + nreqs < MaxCalls
    /\ nreqs' = nreqs + 1
    /\ server' = [server EXCEPT ![k].inflight = @ + 1]
    /\ UNCHANGED <<shutdown_tx, chan, spc, mine, sarg, scalls, cmd, last>>
    /\ UNCHANGED <<events, posts, resp>>
    /\ UNCHANGED <<selVars, regVars>>

\* instance k has a request in flight that its handler can run on
Handling(k) ==
    /\ server[k].status \in {"serving", "draining"}
    /\ server[k].inflight > 0

\* the instances after a request of k was answered with s as its stored
\* settings; a draining instance ends with its last request
Respond(k, s) ==
    [server EXCEPT ![k].settings = s,
                   ![k].inflight = @ - 1,
                   ![k].status = IF @ = "draining" /\ server[k].inflight = 1
                                 THEN "terminated" ELSE @]

\* a mutant of GetSettings: a stored string that does not parse is answered
\* with 500
GetSettingsStrict(k) ==
    /\ Handling(k)
    /\ LET settings == server[k].settings
           parsed == from_str(settings)
       IN  /\ resp' = IF parsed = ParseError
                      THEN [inst |-> k, method |-> "GET", status |-> 500,
                            body |-> <<>>, stored |-> settings, delivered |-> FALSE]
                      ELSE [inst |-> k, method |-> "GET", status |-> 200,
                            body |-> to_string(parsed), stored |-> settings,
                            delivered |-> FALSE]
           /\ server' = Respond(k, settings)
    /\ UNCHANGED <<shutdown_tx, chan, spc, mine, sarg, scalls, cmd, last>>
    /\ UNCHANGED <<nreqs, events, posts>>
    /\ UNCHANGED <<selVars, regVars>>

\* get_settings (lines 90-94): the stored string is parsed, {} stands in for
\* one that does not parse, and Json(json) is the 200 response
GetSettings(k) ==
    /\ Handling(k)
    /\ LET settings == server[k].settings
           parsed == from_str(settings)
           json == IF parsed = ParseError THEN EmptyObject ELSE parsed
       IN  /\ resp' = [inst |-> k, method |-> "GET", status |-> 200,
                       body |-> to_string(json), stored |-> settings,
                       delivered |-> FALSE]
           /\ server' = Respond(k, settings)
    /\ UNCHANGED <<shutdown_tx, chan, spc, mine, sarg, scalls, cmd, last>>
    /\ UNCHANGED <<nreqs, events, posts>>
    /\ UNCHANGED <<selVars, regVars>>

\* a mutant of UpdateSettings: the notification is emitted and the posted
\* document is not stored
UpdateSettingsNoStore(k, body, delivered) ==
    /\ Handling(k)
    /\ from_str(body) # ParseError
    /\ LET payload == from_str(body)
       IN  /\ server' = Respond(k, server[k].settings)
           /\ events' = Append(events, [inst |-> k, payload |-> payload])
           /\ posts' = Append(posts, [inst |-> k, body |-> body])
           /\ resp' = [inst |-> k, method |-> "POST", status |-> 200, body |-> <<>>,
                       stored |-> <<>>, delivered |-> delivered]
    /\ UNCHANGED <<shutdown_tx, chan, spc, mine, sarg, scalls, cmd, last, nreqs>>
    /\ UNCHANGED <<selVars, regVars>>

\* a mutant of UpdateSettings: the Result of emit is propagated, a failed
\* delivery answers 500
UpdateSettingsChecked(k, body, delivered) ==
    /\ Handling(k)
    /\ from_str(body) # ParseError
    /\ LET payload == from_str(body)
       IN  /\ server' = Respond(k, to_string(payload))
           /\ events' = Append(events, [inst |-> k, payload |-> payload])
           /\ posts' = Append(posts, [inst |-> k, body |-> body])
           /\ resp' = [inst |-> k, method |-> "POST",
                       status |-> IF delivered THEN 200 ELSE 500,
                       body |-> <<>>, stored |-> <<>>,
                       delivered |-> delivered]
    /\ UNCHANGED <<shutdown_tx, chan, spc, mine, sarg, scalls, cmd, last, nreqs>>
    /\ UNCHANGED <<selVars, regVars>>

\* update_settings (lines 96-107) on a body the Json<Value> extractor parsed:
\* the stored string becomes payload.to_string(), emit is called once with
\* the payload, its Result is dropped (`let _ =`), StatusCode::OK is returned
UpdateSettings(k, body, delivered) ==
    /\ Handling(k)
    /\ from_str(body) # ParseError
    /\ LET payload == from_str(body)
       IN  /\ server' = Respond(k, to_string(payload))
           /\ events' = Append(events, [inst |-> k, payload |-> payload])
           /\ posts' = Append(posts, [inst |-> k, body |-> body])
           /\ resp' = [inst |-> k, method |-> "POST", status |-> 200, body |-> <<>>,
                       stored |-> <<>>, delivered |-> delivered]
    /\ UNCHANGED <<shutdown_tx, chan, spc, mine, sarg, scalls, cmd, last, nreqs>>
    /\ UNCHANGED <<selVars, regVars>>

\* the Json<Value> extractor (line 98) rejects a body that is not JSON: the
\* handler does not run and the response is a client error
PostRejected(k, body) ==
    /\ Handling(k)
    /\ from_str(body) = ParseError
    /\ server' = Respond(k, server[k].settings)
    /\ resp' = [inst |-> k, method |-> "POST", status |-> 400, body |-> <<>>,
                stored |-> <<>>, delivered |-> FALSE]
    /\ UNCHANGED <<shutdown_tx, chan, spc, mine, sarg, scalls, cmd, last>>
    /\ UNCHANGED <<nreqs, events, posts>>
    /\ UNCHANGED <<selVars, regVars>>

\* a mutant of ShutdownReceived: the signal is received and the instance
\* goes on serving (axum::serve without with_graceful_shutdown)
ShutdownIgnored(k) ==
    /\ server[k].status = "serving"
    /\ chan[k].rx = "task"
    /\ chan[k].sent
    /\ chan' = [chan EXCEPT ![k].rx = "done"]
    /\ UNCHANGED <<shutdown_tx, server, spc, mine, sarg, scalls, cmd, last>>
    /\ UNCHANGED <<selVars, regVars, httpVars>>

\* with_graceful_shutdown (lines 70-75): rx.await completes once the signal
\* was sent; the task stops accepting, finishes the requests in flight and ends
ShutdownReceived(k) ==
    /\ server[k].status = "serving"
    /\ chan[k].rx = "task"
    /\ chan[k].sent
    /\ chan' = [chan EXCEPT ![k].rx = "done"]
    /\ server' = [server EXCEPT ![k].status = IF server[k].inflight = 0
                                              THEN "terminated" ELSE "draining"]
    /\ UNCHANGED <<shutdown_tx, spc, mine, sarg, scalls, cmd, last>>
    /\ UNCHANGED <<selVars, regVars, httpVars>>

NextServer ==
    \/ \E p \in Procs, s \in SettingsArgs : StartSyncServer(p, s)
    \/ \E p \in Procs, why \in {"IpFailure", "BindFailure"} : StartFailed(p, why)
    \/ \E p \in Procs, port \in Ports : StartBound(p, port)
    \/ \E p \in Procs : StopSyncServer(p)
    \/ \E k \in 1..Len(server) : Accept(k)
    \/ \E k \in 1..Len(server) : GetSettings(k)
    \/ \E k \in 1..Len(server), body \in Bodies, delivered \in BOOLEAN :
          UpdateSettings(k, body, delivered)
    \/ \E k \in 1..Len(server), body \in Bodies : PostRejected(k, body)
    \/ \E k \in 1..Len(server) : ShutdownReceived(k)

(***************************************************************************)
(* Specifications                                                          *)
(***************************************************************************)
SelectIdle == url = <<>> /\ transport = NoHint /\ transport_type = "unset"

\* the state after construction: McpState of run() (lib.rs:104-106),
\* SyncService::new (sync.rs:19-23), no command issued yet
Init == SelectIdle /\ InitRegistry /\ InitServer

\* as Init, with the arguments of the transport choice drawn
InitDrawn == InitSelect /\ InitRegistry /\ InitServer

Next == Select \/ NextRegistry \/ NextServer

Spec == Init /\ [][Next]_vars

SpecSelect == InitDrawn /\ [][Select]_vars

SpecRegistry == Init /\ [][NextRegistry]_vars

SpecServer == Init /\ [][NextServer]_vars

\* the steps of caller c's command that need no one else: the lock was
\* granted to it, or its RPC is answered
Progress(c) ==
    \/ LockClients(c)
    \/ InsertBegin(c)
    \/ InsertEnd(c)
    \/ Lookup(c)
    \/ \E ok \in BOOLEAN : RpcReturn(c, ok)

\* the runtime polls every task that can run and the RPC engine answers every
\* call; the connector and the callers are under no obligation
FairRegistry == SpecRegistry /\ \A c \in Callers : WF_vars(Progress(c))

\* the instances a run can build: one per start
Instances == 1..MaxCalls

\* a step of the server task of instance k: it answers a request in flight
\* or receives the shutdown signal
TaskStep(k) ==
    /\ k <= Len(server)
    /\ \/ ShutdownReceived(k)
       \/ GetSettings(k)
       \/ \E body \in Bodies, delivered \in BOOLEAN : UpdateSettings(k, body, delivered)
       \/ \E body \in Bodies : PostRejected(k, body)

\* the runtime polls every server task that can run: requests in flight are
\* answered and a sent signal is received; the commands, the bind and the
\* clients of the server are under no obligation
FairServer == SpecServer /\ \A k \in Instances : WF_vars(TaskStep(k))

(***************************************************************************)
(* Properties of the registry                                              *)
(***************************************************************************)
\* the handle of the most recent insert under id, NoHandle when there is none
LastInserted(id) ==
    LET at == {i \in 1..Len(history) : history[i][1] = id}
    IN  IF at = {} THEN NoHandle
        ELSE history[CHOOSE i \in at : \A j \in at : j <= i][2]

\* the ids some successful connect has inserted
EverInserted == {history[i][1] : i \in 1..Len(history)}

\* C1: a connect whose connector fails (the command leaves the connector's
\* await straight for its return) leaves the map as it was and returns the
\* ConnectFailure error.
C1_FailedConnectKeepsRegistry ==
    [][\A c \in Callers :
          (pc[c] = "connecting" /\ pc'[c] = "idle")
              => (clients' = clients /\ res'[c] = "ConnectFailure")]_vars

\* a connect has failed on an id that holds an entry, and the entry is there
C1_Witness ==
    \E c \in Callers :
        /\ call[c].kind = "connect"
        /\ pc[c] = "idle"
        /\ res[c] = "ConnectFailure"
        /\ Get(clients, call[c].id) # NoHandle

\* C2: the map holds at most one handle per id; each id resolves to the
\* handle of the most recent successful connect for that id; the handle an
\* RPC of list_tools/call_tool runs on is that one; and no id resolves to a
\* session that was connected for another id.
C2_OneHandlePerId ==
    /\ \A id \in Ids : Cardinality({p \in clients : p[1] = id}) <= 1
    /\ \A id \in Ids : Get(clients, id) = LastInserted(id)
    /\ \A p \in clients : p[2].id = p[1]
    /\ \A c \in Callers :
          pc[c] = "rpc" => /\ client[c] = LastInserted(call[c].id)
                           /\ client[c] # NoHandle
                           /\ client[c].id = call[c].id

\* an id was connected twice and a lookup of it runs on the second handle
C2_Witness ==
    \E c \in Callers, i, j \in 1..Len(history) :
        /\ i < j
        /\ history[i][1] = call[c].id
        /\ history[j][1] = call[c].id
        /\ pc[c] = "rpc"
        /\ client[c] = history[j][2]
        /\ client[c] # history[i][2]

\* C3: list_tools/call_tool on an id no successful connect has inserted
\* never reaches the RPC engine and returns NotFound, no other error.
C3_UnknownIdNotFound ==
    /\ \A c \in Callers :
          (call[c].kind \in {"list_tools", "call_tool"} /\ call[c].id \notin EverInserted)
              => (pc[c] # "rpc" /\ res[c] \in {"pending", "NotFound"})
    /\ engineCalls \subseteq EverInserted

\* a list_tools and a call_tool have both returned NotFound for ids never
\* inserted, while another id is connected
C3_Witness ==
    \E c, d \in Callers :
        /\ call[c].kind = "list_tools" /\ res[c] = "NotFound"
        /\ call[d].kind = "call_tool" /\ res[d] = "NotFound"
        /\ call[c].id \notin EverInserted
        /\ call[d].id \notin EverInserted

\* C4: under FairRegistry every call_tool that was issued returns, whatever
\* other callers do on the same id, and no caller reads the map while an
\* insert is writing an entry.
C4_CallToolCompletes ==
    /\ \A c \in Callers :
          (call[c].kind = "call_tool" /\ pc[c] \in {"lookup", "rpc"}) ~> (pc[c] = "idle")
    /\ [](\A c \in Callers : CanRead(c) => writing = NoId)

\* two call_tool on the same id are in progress: one awaits the engine, the
\* other waits for the lock
C4_Witness ==
    \E c, d \in Callers :
        /\ c # d
        /\ call[c].kind = "call_tool" /\ call[d].kind = "call_tool"
        /\ call[c].id = call[d].id
        /\ pc[c] = "rpc"
        /\ pc[d] = "lookup"
        /\ d \in {waiters[i] : i \in 1..Len(waiters)}

(***************************************************************************)
(* Properties of the transport choice                                      *)
(***************************************************************************)
\* "/sse" occurs in u, stated on the characters
HasSse(u) ==
    \E i \in 0..(Len(u) - 4) :
        u[i + 1] = "/" /\ u[i + 2] = "s" /\ u[i + 3] = "s" /\ u[i + 4] = "e"

\* C5: the choice is defined for every (url, hint); "sse" and "http" select
\* their transport whatever the url; any other hint, or none, selects Sse
\* exactly when the url contains "/sse" and StreamableHttp otherwise.
C5_TransportSelection ==
    /\ transport_type = "unset" => ENABLED Select
    /\ transport_type # "unset" =>
        /\ transport_type \in {"Sse", "StreamableHttp"}
        /\ transport = "sse" => transport_type = "Sse"
        /\ transport = "http" => transport_type = "StreamableHttp"
        /\ transport \notin {"sse", "http"} => (transport_type = "Sse" <=> HasSse(url))

\* an unrecognised hint on a url with "/sse" inside it fell through to the
\* heuristic
C5_Witness ==
    /\ transport = "ws"
    /\ Len(url) > 4
    /\ HasSse(url)
    /\ transport_type = "Sse"

(***************************************************************************)
(* Properties of the sync server                                           *)
(***************************************************************************)
\* C6: a start issued while the slot is occupied, or right after another
\* start with no stop issued in between, finds the slot occupied, returns
\* AlreadyRunning and changes neither the slot, nor the channels, nor any
\* instance (its status, its settings, its requests in flight).
C6_SecondStartRejected ==
    [][(/\ scalls' = scalls + 1
        /\ cmd'.op = "start"
        /\ (shutdown_tx # NoChan \/ cmd.op = "start"))
          => /\ shutdown_tx # NoChan
             /\ last'.op = "start"
             /\ last'.proc = cmd'.proc
             /\ last'.result = "AlreadyRunning"
             /\ UNCHANGED <<shutdown_tx, chan, server, spc>>]_vars

\* a start with other settings was rejected while the first instance serves
C6_Witness ==
    /\ last.op = "start"
    /\ last.result = "AlreadyRunning"
    /\ shutdown_tx # NoChan
    /\ last.before = shutdown_tx
    /\ server[shutdown_tx].status = "serving"
    /\ server[shutdown_tx].settings # last.arg
    /\ ~chan[shutdown_tx].sent

\* C7: stop on an empty slot returns the NotRunning error.
C7_StopEmptyNotRunning ==
    (last.op = "stop" /\ last.before = NoChan) => last.result = "NotRunning"

\* C8: at most one instance is running (serving, or finishing its requests
\* in flight) in every state.
C8_AtMostOneRunning ==
    Cardinality(Running(server)) <= 1

\* C9: a start that fails to resolve the address or to bind returns with
\* the slot empty.
C9_FailedStartFreesSlot ==
    (last.op = "start" /\ last.result \in {"IpFailure", "BindFailure"})
        => last.after = NoChan

\* C10: a stop that returns an error while an instance is running leaves
\* the slot occupied.
C10_FailedStopKeepsSlot ==
    (last.op = "stop" /\ last.result # "Ok" /\ last.running # {})
        => last.after # NoChan

\* C15: the registry map lock is never held while an RPC is in flight: a
\* caller that awaits the RPC engine does not hold the guard of the map.
C15_LockFreeDuringRpc ==
    \A c \in Callers : pc[c] = "rpc" => lockHolder # c

\* the callers whose RPC is awaiting the engine
InRpc == {c \in Callers : pc[c] = "rpc"}

\* C16: calls past their lookup run concurrently, only the lookup and the
\* insert are serialized: a call that waits for the map lock never waits for
\* a call that is awaiting the RPC engine, so that a second call can join
\* the first one at the engine.
C16_OnlyLookupSerialized ==
    \A d \in Callers :
        (pc[d] = "lookup" /\ lockHolder # d) => lockHolder \notin InRpc

\* the handle of the connect of id that got the guard last, NoHandle if none
LastAcquired(id) ==
    LET idx == {i \in 1..Len(acquired) : acquired[i].id = id}
    IN  IF idx = {} THEN NoHandle
        ELSE acquired[CHOOSE i \in idx : \A j \in idx : j <= i]

\* the callers whose HashMap::insert is in progress
Inserting == {c \in Callers : pc[c] = "conn_insert"}

\* C17: connects of one id are linearized by the map lock: at most one
\* insert is in progress and it holds the guard, and once no insert of an id
\* is in progress the entry of the id is the handle of the connect that got
\* the guard last.
C17_ConnectsLinearized ==
    /\ Cardinality(Inserting) <= 1
    /\ \A c \in Inserting : lockHolder = c
    /\ \A id \in Ids :
          (\A c \in Inserting : call[c].id # id) => Get(clients, id) = LastAcquired(id)

\* two connects of one id overlapped, both succeeded, and the one whose
\* handshake completed first got the guard second: its handle is the entry
C17_Witness ==
    /\ Inserting = {}
    /\ Len(acquired) = 2
    /\ acquired[1].id = acquired[2].id
    /\ acquired[1].n = 2
    /\ acquired[2].n = 1
    /\ Get(clients, acquired[1].id) = acquired[2]

\* the callers suspended in clients.lock().await
Waiting == {waiters[i] : i \in 1..Len(waiters)}

\* C20: a connect that awaits the Session Connector neither holds the map
\* lock nor queues for it, and under fair scheduling every caller that asked
\* for the lock gets it, also when a connector never returns.
C20_HandshakeWithoutLock ==
    /\ [](\A c \in Callers : pc[c] = "connecting" => (lockHolder # c /\ c \notin Waiting))
    /\ \A d \in Callers : (pc[d] \in {"lookup", "conn_lock"}) ~> (lockHolder = d)

\* one connect awaits its connector while another caller holds the guard
C20_Witness ==
    \E c, d \in Callers :
        /\ pc[c] = "connecting"
        /\ pc[d] \in {"conn_insert", "rpc"}
        /\ lockHolder = d

\* C18: a stop leaves the slot empty whatever it found and whatever send
\* returned; after a stop the slot stays empty until a start is issued, so a
\* second stop finds it empty; and no channel is ever sent on twice.
C18_StopEmptiesSlot ==
    /\ last.op = "stop" => last.after = NoChan
    /\ cmd.op = "stop" => shutdown_tx = NoChan
    /\ \A k \in 1..Len(chan) : chan[k].sends <= 1 /\ (chan[k].sent <=> chan[k].sends = 1)

\* start, stop, stop: the first stop sent the signal, the second found the
\* slot empty
C18_Witness ==
    /\ scalls = 3
    /\ Len(chan) = 1
    /\ chan[1].sends = 1
    /\ cmd.op = "stop"
    /\ last.op = "stop"
    /\ last.before = NoChan

\* C19: when start returns Ok(url) the slot holds the sender this start
\* created; that sender leaves the slot only through a stop, which sends on
\* it, so this also says the instance has not been signalled.
C19_StartOkHoldsSender ==
    (last.op = "start" /\ last.result = "Ok") => last.after = last.created

\* C11, amended: under FairServer an instance whose shutdown signal was sent
\* ends, after the requests it has in flight are answered; and an instance
\* that has ended stays ended, accepts nothing and answers nothing.  A
\* request to its URL can still be served, by an instance of another start
\* whose bind was given the same port.
C11_StoppedServerTerminates ==
    /\ \A k \in Instances :
          (/\ k <= Len(server)
           /\ chan[k].sent
           /\ server[k].status \in {"serving", "draining"})
              ~> (k <= Len(server) /\ server[k].status = "terminated")
    /\ [][\A k \in 1..Len(server) :
            server[k].status = "terminated"
                => /\ server'[k] = server[k]
                   /\ resp' # resp => resp'.inst # k]_vars

\* C11 as the claim words it: under FairServer an instance whose shutdown
\* signal was sent ends, and from then on no request sent to its URL (its
\* port) is accepted or answered, by whatever instance.
C11_NoServeAtUrl ==
    /\ \A k \in Instances :
          (/\ k <= Len(server)
           /\ chan[k].sent
           /\ server[k].status \in {"serving", "draining"})
              ~> (k <= Len(server) /\ server[k].status = "terminated")
    /\ [][\A k, j \in 1..Len(server) :
            (server[k].status = "terminated" /\ server[j].port = server[k].port)
                => /\ server'[j].inflight <= server[j].inflight
                   /\ resp' # resp => resp'.inst # j]_vars

\* an instance was stopped with a request in flight, answered it and ended
C11_Witness ==
    \E k \in 1..Len(server) :
        /\ server[k].status = "terminated"
        /\ chan[k].sends = 1
        /\ last.op = "stop" /\ last.result = "Ok" /\ last.before = k
        /\ resp.inst = k
        /\ chan[k].rx = "done"

\* the posts instance k has handled, by their place in the log
PostsOf(k) == {i \in 1..Len(posts) : posts[i].inst = k}

\* the body of the POST instance k handled last
LastPostBody(k) == posts[CHOOSE i \in PostsOf(k) : \A j \in PostsOf(k) : j <= i].body

\* C12: a GET that follows a POST of document d on the same instance, with
\* no POST in between, answers 200 with a body that is the document d.
C12_PostThenGetRoundTrip ==
    (resp.method = "GET" /\ PostsOf(resp.inst) # {})
        => /\ resp.status = 200
           /\ from_str(resp.body) # ParseError
           /\ from_str(resp.body) = from_str(LastPostBody(resp.inst))

\* the document was posted with its keys out of order and the GET returned
\* it in other words: the same document, another text
C12_Witness ==
    /\ resp.method = "GET"
    /\ PostsOf(resp.inst) # {}
    /\ LastPostBody(resp.inst) = <<"{", "b", ":", "2", ",", "a", ":", "1", "}">>
    /\ resp.body = <<"{", "a", ":", "1", ",", "b", ":", "2", "}">>
    /\ server[resp.inst].settings = resp.body

\* C13: GET answers 200; a stored string that is JSON is answered with its
\* document, one that is not with the empty object; the stored string is
\* what it was.
C13_GetAlways200 ==
    resp.method = "GET"
        => /\ resp.status = 200
           /\ server[resp.inst].settings = resp.stored
           /\ from_str(resp.stored) # ParseError
                 => from_str(resp.body) = from_str(resp.stored)
           /\ from_str(resp.stored) = ParseError
                 => resp.body = <<"{", "}">>

\* the instance was started with a truncated string and a GET was answered
\* 200 with {}
C13_Witness ==
    /\ resp.method = "GET"
    /\ resp.status = 200
    /\ resp.stored = <<"{", "a", ":">>
    /\ resp.body = <<"{", "}">>
    /\ posts = <<>>

\* C14: a step in which update_settings runs on a POST emits one event, of
\* the instance and with the payload of that POST, and answers 200 whether
\* or not the event was delivered; no other step emits an event.
C14_OnePostOneEvent ==
    [][/\ posts' # posts
          => /\ Len(posts') = Len(posts) + 1
             /\ events' = Append(events,
                                 [inst |-> posts'[Len(posts')].inst,
                                  payload |-> from_str(posts'[Len(posts')].body)])
             /\ resp'.method = "POST"
             /\ resp'.status = 200
       /\ events' # events => posts' # posts]_vars

\* two POSTs were handled and two events emitted; the delivery of the last
\* one failed and its POST was answered 200
C14_Witness ==
    /\ Len(posts) = 2
    /\ Len(events) = 2
    /\ resp.method = "POST"
    /\ resp.status = 200
    /\ ~resp.delivered
    /\ events[2].payload = from_str(posts[2].body)

====
